---- MODULE Spec2Model ----
(***************************************************************************)
(* Model of app.py, the adaptive World Wars quiz (a Streamlit script).     *)
(*                                                                         *)
(* Every browser session runs the whole script from top to bottom once per *)
(* user interaction (a "script run").  session_state is private to a       *)
(* session and survives between its runs; the CSV file LOG_FILE is shared  *)
(* by all sessions.  A script run is modelled as a sequence of steps, cut  *)
(* at every access to LOG_FILE and at the blocking call to the question    *)
(* provider, so that runs of different sessions interleave exactly where   *)
(* they can observe each other.                                            *)
(***************************************************************************)
EXTENDS Integers, Sequences, FiniteSets, TLC

\* ------------------------------------------------------------------ config
MAX_QUESTIONS == 6

\* the four options of a question (option1 .. option4)
NumOptions == 4

\* predictions[...] = 0.5 of the except branch, in tenths
Neutral == 5

\* ------------------------------------------------------------------ bounds
\* browser sessions that exist
NumSessions == 2
\* Submit Answer is clicked while log_result was called fewer than MaxLog times
MaxLog == 6
\* the same cap in the specification with concurrent sessions
MaxMultiLog == 2
\* Take Quiz Again is clicked at most MaxResets times
MaxResets == 1

Sessions == 1..NumSessions

\* ------------------------------------------------------------------ inputs
\* the radio options the learner submits
UserChoices == {1, 2}

\* ------------------------------------------------------------------ values
None == [type |-> "None"]

topics == <<"World War I", "World War II", "World Wars General">>
difficulties == <<"Easy", "Medium", "Hard">>

DefaultSelection == [topic |-> "World War I", difficulty |-> "Easy"]

\* the session_state keys of lines 309-318, with their initial values
InitialState ==
  [asked_questions |-> {}, score |-> 0, current_question |-> None,
   answered |-> FALSE, num_questions |-> 0]

StateKeys == DOMAIN InitialState

\* a dict without keys
EmptyDict == [k \in {} |-> 0]

\* d[k] = v on a dict
SetKey(d, k, v) == [x \in (DOMAIN d) \cup {k} |-> IF x = k THEN v ELSE d[x]]

\* del d[k] for every k in ks
DelKeys(d, ks) == [x \in (DOMAIN d) \ ks |-> d[x]]

\* ------------------------------------------------------------------ LOG_FILE
\* LOG_FILE does not exist
AbsentFile == [kind |-> "absent"]
\* LOG_FILE opened for writing and not yet written: zero bytes
TruncatedFile == [kind |-> "truncated"]
\* LOG_FILE holding the header row and the given data lines
CsvFile(rows) == [kind |-> "csv", rows |-> rows]

\* the row log_result builds (lines 42-48)
ResponseRecord(topic, difficulty, answered_correct, choice, question_id) ==
  [topic |-> topic, difficulty |-> difficulty,
   answered_correct |-> answered_correct, choice |-> choice,
   question_id |-> question_id]

\* a missing value of a frame read by read_csv (NaN)
NaN == "<NaN>"
\* the cell texts read_csv takes for a missing value
NaTexts == {"", "NA", "N/A", "NaN", "nan", "null", "NULL", "None"}

\* the decimal text of a one-digit integer, and the integer of such a text
Digits == <<"0", "1", "2", "3", "4", "5", "6", "7", "8", "9">>
DecimalText(n) == Digits[n + 1]
DigitValue ==
  [text \in {Digits[i] : i \in DOMAIN Digits} |->
     CHOOSE n \in 0..(Len(Digits) - 1) : Digits[n + 1] = text]
ParseInteger(text) == DigitValue[text]

\* DataFrame.to_csv(index=False), row by row: strings as they are, a missing
\* value as the empty text, integers in decimal
to_csv_text(value) == IF value = NaN THEN "" ELSE value
to_csv_row(row) ==
  [topic |-> to_csv_text(row.topic),
   difficulty |-> to_csv_text(row.difficulty),
   answered_correct |-> DecimalText(row.answered_correct),
   choice |-> DecimalText(row.choice),
   question_id |-> row.question_id]
RECURSIVE to_csv(_)
to_csv(df) ==
  IF df = <<>> THEN <<>> ELSE <<to_csv_row(Head(df))>> \o to_csv(Tail(df))

\* pd.read_csv, line by line: a text that names a missing value becomes NaN,
\* a column of digits becomes integers; a question_id is never such a text
read_csv_text(text) == IF text \in NaTexts THEN NaN ELSE text
read_csv_row(line) ==
  [topic |-> read_csv_text(line.topic),
   difficulty |-> read_csv_text(line.difficulty),
   answered_correct |-> ParseInteger(line.answered_correct),
   choice |-> ParseInteger(line.choice),
   question_id |-> line.question_id]
RECURSIVE read_csv(_)
read_csv(lines) ==
  IF lines = <<>>
  THEN <<>>
  ELSE <<read_csv_row(Head(lines))>> \o read_csv(Tail(lines))

\* what LOG_FILE holds once a writer that opened it flushes `rows` from offset
\* 0: its own rows, followed by whatever a longer concurrent write left
\* beyond them
Flushed(file, rows) ==
  IF file.kind = "csv" /\ Len(file.rows) > Len(rows)
  THEN CsvFile(rows \o SubSeq(file.rows, Len(rows) + 1, Len(file.rows)))
  ELSE CsvFile(rows)

VARIABLES
  log_file,       \* the contents of LOG_FILE
  session_state,  \* session_state[s]: the st.session_state dict of session s
  pc,             \* pc[s]: where the script run of session s stands
  trigger,        \* trigger[s]: the widget event the current run was started by
  frame,          \* frame[s]: the live local variables of the run
  screen,         \* screen[s]: what the last finished run of s rendered
  appended,       \* history: the rows of the log_result calls that returned
  logged,         \* history: logged[s] = log_result calls for the current question
  resets,         \* history: the clicks on Take Quiz Again so far
  calls,          \* history: the calls of log_result so far
  served          \* history: served[s] = a provider call of s did not raise

vars ==
  <<log_file, session_state, pc, trigger, frame, screen, appended, logged,
    resets, calls, served>>

NoFrame == [at |-> "none"]
NoTrigger == [kind |-> "load"]

Init ==
  /\ log_file = AbsentFile
  /\ session_state = [s \in Sessions |-> EmptyDict]
  /\ pc = [s \in Sessions |-> "idle"]
  /\ trigger = [s \in Sessions |-> NoTrigger]
  /\ frame = [s \in Sessions |-> NoFrame]
  /\ screen = [s \in Sessions |-> "none"]
  /\ appended = <<>>
  /\ logged = [s \in Sessions |-> 0]
  /\ resets = 0
  /\ calls = 0
  /\ served = [s \in Sessions |-> FALSE]

\* ---------------------------------------------------------------- helpers
\* the script run of session s goes on at `label` with session_state ss,
\* widget event t, local variables f and `page` on the screen
Land(s, ss, label, t, f, page) ==
  /\ session_state' = [session_state EXCEPT ![s] = ss]
  /\ pc' = [pc EXCEPT ![s] = label]
  /\ trigger' = [trigger EXCEPT ![s] = t]
  /\ frame' = [frame EXCEPT ![s] = f]
  /\ screen' = [screen EXCEPT ![s] = page]

\* an exception nothing catches ends the script run; session_state keeps
\* what the run assigned before it, and the page keeps what was rendered
\* before it: "exception" has no widget, "question_exception" has the radio
\* and the Submit Answer button
Uncaught(s, ss, page) == Land(s, ss, "idle", NoTrigger, NoFrame, page)

\* the script run ends normally having rendered `page`
Finish(s, ss, page) == Land(s, ss, "idle", NoTrigger, NoFrame, page)

\* st.rerun(): the run stops and a new one starts, with no widget triggered
Rerun(s, ss, why, page) == Land(s, ss, "startup", [kind |-> why], NoFrame, page)

\* --------------------------------------------------------- question page
\* line 356: the question page is rendered (otherwise the completion page)
ShowsQuestion(ss) ==
  ss.current_question # None /\ ss.num_questions < MAX_QUESTIONS

\* line 396 without `and not st.session_state.answered`
SubmitIgnoringAnswered(ss, t) == t.kind = "submit"

\* line 396: the submit handler runs
SubmitGuard(ss, t) == t.kind = "submit" /\ ~ss.answered

\* line 444 outside the `if st.session_state.answered:` of line 441
NextIgnoringAnswered(ss, t) == t.kind = "next"

\* lines 441 and 444: the Next Question button exists and was clicked
NextGuard(ss, t) == ss.answered /\ t.kind = "next"

\* line 399
Grade(selected, correct_answer) == IF selected = correct_answer THEN 1 ELSE 0

\* line 406 indexes options[correct_answer-1], a list of NumOptions items
ValidIndex(i) == i \in (0 - NumOptions)..(NumOptions - 1)

\* lines 445-446 without line 447, `st.session_state.answered = False`
AdvanceKeepingAnswered(ss) ==
  SetKey(SetKey(ss, "num_questions", ss.num_questions + 1),
         "current_question", None)

\* lines 445-447
Advance(ss) ==
  SetKey(SetKey(SetKey(ss, "num_questions", ss.num_questions + 1),
                "current_question", None),
         "answered", FALSE)

\* lines 441-448: the Next Question button and its handler
NextHandler(s, ss, t) ==
  IF NextGuard(ss, t)
  THEN Rerun(s, Advance(ss), "rerun_next", screen[s])
  ELSE Finish(s, ss, "question")

\* lines 396-412: grade the choice and count a correct answer; log_result
\* is called next
SubmitHandler(s, ss, t) ==
  LET q_data == ss.current_question
      selected == t.choice
      answered_correct == Grade(selected, q_data.correct_answer)
      locals == [at |-> "log", selected |-> selected,
                 answered_correct |-> answered_correct]
  IN IF answered_correct = 1
     THEN Land(s, SetKey(ss, "score", ss.score + 1), "log_read", t, locals, screen[s])
     ELSE IF ValidIndex(q_data.correct_answer - 1)
     THEN Land(s, ss, "log_read", t, locals, screen[s])
     ELSE Uncaught(s, ss, "question_exception")     \* line 406: IndexError

\* lines 357-448, up to the call of log_result
QuestionPage(s, ss, t) ==
  IF ~ss.current_question.complete
  THEN Uncaught(s, ss, "exception")     \* lines 382-386: KeyError
  ELSE IF SubmitGuard(ss, t)
  THEN SubmitHandler(s, ss, t)
  ELSE NextHandler(s, ss, t)

\* ------------------------------------------------------- completion page
\* line 520 without the prefix 'score'
PrefixesWithoutScore ==
  {"num_questions", "asked_questions", "current_question", "answered"}

\* line 520: the prefixes of the keys Take Quiz Again deletes
ResetPrefixes ==
  {"score", "num_questions", "asked_questions", "current_question", "answered"}

\* key.startswith(prefixes); no session key extends another one
StartsWithAny(key, prefixes) == key \in prefixes

\* lines 519-521
DeleteQuizKeys(ss) ==
  DelKeys(ss, {k \in DOMAIN ss : StartsWithAny(k, ResetPrefixes)})

\* lines 450-547, the else branch of line 356, up to the read of line 527
CompletionPage(s, ss, t) ==
  IF t.kind = "reset"
  THEN Rerun(s, DeleteQuizKeys(ss), "rerun_reset", "complete")
  ELSE IF t.kind = "download"
  THEN Land(s, ss, "download_read", t, NoFrame, screen[s])
  ELSE Finish(s, ss, "complete")

\* lines 356 and 450
Display(s, ss, t) ==
  IF ShowsQuestion(ss) THEN QuestionPage(s, ss, t) ELSE CompletionPage(s, ss, t)

\* ------------------------------------- start of the script (lines 34-340)
\* lines 309-318: every key that is not in session_state gets its initial value
InitializeKeys(ss) ==
  [k \in (DOMAIN ss) \cup StateKeys |-> IF k \in DOMAIN ss THEN ss[k] ELSE InitialState[k]]

\* line 340 without `and st.session_state.num_questions < MAX_QUESTIONS`
NeedsQuestionPastMax(ss) == ss.current_question = None

\* line 340: a question has to be requested
NeedsQuestion(ss) ==
  ss.current_question = None /\ ss.num_questions < MAX_QUESTIONS

\* lines 309-340: initialise the session keys, render the sidebar, then
\* request a question or go on to the page
SessionInit(s, t) ==
  LET ss == InitializeKeys(session_state[s])
  IN IF NeedsQuestion(ss)
     THEN Land(s, ss, "train", t, NoFrame, screen[s])
     ELSE Display(s, ss, t)

\* line 34, os.path.exists(LOG_FILE), and what follows up to the next access
\* to LOG_FILE
CheckLogExists(s, t) ==
  IF log_file.kind = "absent"
  THEN Land(s, session_state[s], "create_open", t, NoFrame, screen[s])
  ELSE SessionInit(s, t)

\* an interaction of the learner starts a script run of an idle session
StartRun(s, t) ==
  /\ pc[s] = "idle"
  /\ CheckLogExists(s, t)
  /\ UNCHANGED <<log_file, appended, logged, served>>

\* the run that st.rerun() asked for starts
StartRerun(s) ==
  /\ pc[s] = "startup"
  /\ CheckLogExists(s, trigger[s])
  /\ UNCHANGED <<log_file, appended, logged, resets, calls, served>>

\* line 35, to_csv opening LOG_FILE for writing
CreateLogOpen(s) ==
  /\ pc[s] = "create_open"
  /\ log_file' = TruncatedFile
  /\ Land(s, session_state[s], "create_write", trigger[s], NoFrame, screen[s])
  /\ UNCHANGED <<appended, logged, resets, calls, served>>

\* line 35, to_csv writing the header row of the empty frame and closing;
\* the script goes on to line 340
CreateLogWrite(s) ==
  /\ pc[s] = "create_write"
  /\ log_file' = Flushed(log_file, to_csv(<<>>))
  /\ SessionInit(s, trigger[s])
  /\ UNCHANGED <<appended, logged, resets, calls, served>>

\* ------------------------------------------------------------ user events
\* page load, a radio change, or a button without state effect (Study Tips)
PageLoad(s) ==
  /\ StartRun(s, [kind |-> "load"])
  /\ UNCHANGED <<resets, calls, served>>

\* "Submit Answer" with the radio on option c; the button is on every
\* question page
ClickSubmit(s, c, cap) ==
  /\ screen[s] \in {"question", "question_exception"}
  /\ calls < cap
  /\ StartRun(s, [kind |-> "submit", choice |-> c])
  /\ UNCHANGED <<resets, calls, served>>

\* "Next Question"; a second click on the button of the page before
\* arrives when the page no longer has it
ClickNext(s) ==
  /\ screen[s] = "question"
  /\ StartRun(s, [kind |-> "next"])
  /\ UNCHANGED <<resets, calls, served>>

\* "Take Quiz Again", a button of the completion page
ClickReset(s) ==
  /\ screen[s] = "complete"
  /\ resets < MaxResets
  /\ resets' = resets + 1
  /\ StartRun(s, [kind |-> "reset"])
  /\ UNCHANGED <<calls, served>>

\* "Download Report", a button of the completion page
ClickDownload(s) ==
  /\ screen[s] = "complete"
  /\ StartRun(s, [kind |-> "download"])
  /\ UNCHANGED <<resets, calls, served>>

\* line 527: the report is read from LOG_FILE
DownloadRead(s) ==
  /\ pc[s] = "download_read"
  /\ IF log_file.kind = "csv"
     THEN Finish(s, session_state[s], "complete")
     ELSE Uncaught(s, session_state[s], "exception")   \* zero-byte file
  /\ UNCHANGED <<log_file, appended, logged, resets, calls, served>>

\* ------------------------------------------------------- adaptive selector
\* the 9 combinations in the order the loops of lines 185-186 visit them
NumCombos == Len(topics) * Len(difficulties)
ComboTopic(i) == topics[((i - 1) \div Len(difficulties)) + 1]
ComboDifficulty(i) == difficulties[((i - 1) % Len(difficulties)) + 1]

\* f"{topic}_{difficulty}": a string as the sequence of its pieces
PredictionKey(topic, difficulty) == <<topic, "_", difficulty>>

\* key.split("_", 1): the pieces before and after the first "_"
SplitFirstUnderscore(key) ==
  LET i == CHOOSE n \in 1..Len(key) :
             key[n] = "_" /\ \A m \in 1..(n - 1) : key[m] # "_"
  IN <<SubSeq(key, 1, i - 1), SubSeq(key, i + 1, Len(key))>>

NoModel == None

\* LogisticRegression.fit raised
FitError == [type |-> "fit_error"]

\* the values of a column of the frame
Column(log_data, name) == {log_data[i][name] : i \in 1..Len(log_data)}

\* the distinct values of the answered_correct column
Outcomes(log_data) == Column(log_data, "answered_correct")

\* lines 167-168: the encoder keeps the categories of each of the two
\* columns, one column at a time
fit_encoder(log_data) ==
  [handle_unknown |-> "ignore",
   topics |-> Column(log_data, "topic"),
   difficulties |-> Column(log_data, "difficulty")]

\* lines 169-170: a fitted model is an intercept and one coefficient for each
\* category the encoder kept.  The optimisation is not computed: the fit may
\* give any member of the family it is asked for.
FittedModels(log_data, intercepts, topic_coefs, difficulty_coefs) ==
  LET enc == fit_encoder(log_data)
  IN {[type |-> "model", enc |-> enc, intercept |-> b,
       topic_coef |-> wt, difficulty_coef |-> wd] :
        b \in intercepts,
        wt \in [enc.topics -> topic_coefs],
        wd \in [enc.difficulties -> difficulty_coefs]}

\* the fits of the quiz: no topic is set apart, and the first difficulty may
\* be found easier than the others
QuizFits(log_data) ==
  {fit \in FittedModels(log_data, {0}, {0}, {0, 1}) :
     \A d \in fit.enc.difficulties : d # difficulties[1] => fit.difficulty_coef[d] = 0}

\* lines 160-171 without `or log_data['answered_correct'].nunique() < 2`
train_on_any_outcomes(log_data, fit) ==
  IF Len(log_data) < 3 THEN NoModel ELSE fit

\* lines 160-171, on the rows read from LOG_FILE and the outcome of the fit;
\* a fit that raises leaves train_adaptive_model through the exception
train_adaptive_model(log_data, fit) ==
  IF Len(log_data) < 3 \/ Cardinality(Outcomes(log_data)) < 2
  THEN NoModel
  ELSE fit

\* line 189: enc.transform raises on a category the encoder did not keep
\* only when it was built with handle_unknown="error"
TransformRaises(enc, topic, difficulty) ==
  /\ enc.handle_unknown = "error"
  /\ topic \notin enc.topics \/ difficulty \notin enc.difficulties

\* the decision function on the encoded sample: a category the encoder did
\* not keep is encoded as zeros and adds nothing
DecisionFunction(model, topic, difficulty) ==
  model.intercept
  + (IF topic \in model.enc.topics THEN model.topic_coef[topic] ELSE 0)
  + (IF difficulty \in model.enc.difficulties
     THEN model.difficulty_coef[difficulty] ELSE 0)

\* line 190, predict_proba(...)[0][1] in tenths: 0.5 where the decision
\* function is 0, and growing with it
predict_proba(model, topic, difficulty) ==
  Neutral + DecisionFunction(model, topic, difficulty)

\* lines 187-193: the probability the scan records for a combination
Prediction(model, topic, difficulty) ==
  IF TransformRaises(model.enc, topic, difficulty)
  THEN Neutral
  ELSE predict_proba(model, topic, difficulty)

\* lines 183-193: the values of the predictions dict, in the order the loops
\* insert them, from combination i on
RECURSIVE ScanCombos(_, _)
ScanCombos(model, i) ==
  IF i > NumCombos
  THEN <<>>
  ELSE <<Prediction(model, ComboTopic(i), ComboDifficulty(i))>>
         \o ScanCombos(model, i + 1)

\* line 196, min(predictions, key=predictions.get) over the keys in insertion
\* order from place i on: best changes only for a strictly smaller value
RECURSIVE MinScan(_, _, _)
MinScan(predictions, i, best) ==
  IF i > Len(predictions)
  THEN best
  ELSE MinScan(predictions, i + 1,
               IF predictions[i] < predictions[best] THEN i ELSE best)

\* lines 176-199 with a scan that keeps the last of the least values
select_last_weakest(model) ==
  IF model = NoModel
  THEN DefaultSelection
  ELSE LET weakest ==
             CHOOSE i \in 1..NumCombos :
               /\ \A j \in 1..NumCombos :
                    Prediction(model, ComboTopic(i), ComboDifficulty(i))
                      <= Prediction(model, ComboTopic(j), ComboDifficulty(j))
               /\ \A j \in (i + 1)..NumCombos :
                    Prediction(model, ComboTopic(i), ComboDifficulty(i))
                      < Prediction(model, ComboTopic(j), ComboDifficulty(j))
       IN [topic |-> ComboTopic(weakest), difficulty |-> ComboDifficulty(weakest)]

\* lines 176-199
select_adaptive_difficulty(model) ==
  IF model = NoModel
  THEN DefaultSelection
  ELSE LET predictions == ScanCombos(model, 1)
           weakest == MinScan(predictions, 2, 1)
           parts == SplitFirstUnderscore(
                      PredictionKey(ComboTopic(weakest), ComboDifficulty(weakest)))
       IN [topic |-> parts[1][1], difficulty |-> parts[2][1]]

\* lines 343-344: read LOG_FILE, train, select; then the provider is called
TrainAndSelect(s) ==
  /\ pc[s] = "train"
  /\ IF log_file.kind = "csv"
     THEN \E log_data \in {read_csv(log_file.rows)} :
            \E model \in {train_adaptive_model(log_data, fit) :
                            fit \in QuizFits(log_data)} :
              \E sel \in {select_adaptive_difficulty(model)} :
                Land(s, session_state[s], "generating", trigger[s],
                     [at |-> "generate", topic |-> sel.topic,
                      difficulty |-> sel.difficulty], screen[s])
     ELSE Uncaught(s, session_state[s], "exception")  \* read_csv, zero-byte file
  /\ UNCHANGED <<log_file, appended, logged, resets, calls, served>>

\* ------------------------------------------------------- question provider
\* the chat completion call or json.loads raised
ApiError == [type |-> "error"]
\* the reply parsed to an empty object
EmptyJson == [type |-> "empty"]
\* the reply parsed to a JSON array
ListJson == [type |-> "list"]
\* the reply parsed to an object; complete: it has the question, the four
\* options and the explanation
DictJson(complete, correct_answer) ==
  [type |-> "dict", complete |-> complete, correct_answer |-> correct_answer]

\* the replies the provider may give: a well-formed question whose answer is
\* option 2, one whose correct_answer is past the last option, one that
\* lacks fields, and the replies that are no question at all
ApiOutcomes ==
  {ApiError, EmptyJson, ListJson,
   DictJson(TRUE, 2), DictJson(TRUE, NumOptions + 1), DictJson(FALSE, 2)}

\* lines 54-105 without the try/except of lines 63 and 107-109: what the
\* provider call raised reaches the caller
generate_without_except(outcome) == outcome

\* lines 54-109: the parsed reply, or None when anything raised
generate_world_wars_question(outcome) ==
  IF outcome = ApiError THEN None ELSE outcome

\* line 349, `if question_data:`
Truthy(value) == value.type \notin {"None", "empty"}

\* lines 350-352: the fields the session adds to the question
AcceptedQuestion(question_data, topic, difficulty, num_questions) ==
  [type |-> "dict", complete |-> question_data.complete,
   correct_answer |-> question_data.correct_answer,
   topic |-> topic, difficulty |-> difficulty,
   question_id |-> <<topic, difficulty, num_questions>>]

\* lines 347-353 and the page after them: the provider call returns, the
\* question is accepted, the page is rendered
GenerateQuestion(s, outcomes) ==
  /\ pc[s] = "generating"
  /\ \E outcome \in outcomes :
       LET question_data == generate_world_wars_question(outcome)
           ss == session_state[s]
       IN /\ served' = [served EXCEPT ![s] = @ \/ outcome # ApiError]
          /\ IF ~Truthy(question_data)
             THEN /\ Display(s, ss, trigger[s])
                  /\ UNCHANGED logged
             ELSE IF question_data.type # "dict"
             THEN /\ Uncaught(s, ss, "exception")   \* line 350: item assignment on a list
                  /\ UNCHANGED logged
             ELSE /\ Display(s, SetKey(ss, "current_question",
                                   AcceptedQuestion(question_data, frame[s].topic,
                                      frame[s].difficulty, ss.num_questions)),
                             trigger[s])
                  /\ logged' = [logged EXCEPT ![s] = 0]
  /\ UNCHANGED <<log_file, appended, resets, calls>>

\* --------------------------------------------------------------- log_result
\* lines 42-48 with the frame read at line 41 left out of the concat
log_result_without_frame(df_log, topic, difficulty, answered_correct, choice, question_id) ==
  <<ResponseRecord(topic, difficulty, answered_correct, choice, question_id)>>

\* lines 40-48 of log_result: the frame read from LOG_FILE with the new row
log_result(df_log, topic, difficulty, answered_correct, choice, question_id) ==
  df_log \o <<ResponseRecord(topic, difficulty, answered_correct, choice, question_id)>>

\* line 41: log_result reads LOG_FILE and appends the row in memory
LogRead(s) ==
  LET q_data == session_state[s].current_question
  IN /\ pc[s] = "log_read"
     /\ IF log_file.kind = "csv"
        THEN Land(s, session_state[s], "log_open", trigger[s],
                  [at |-> "write",
                   df_log |-> log_result(read_csv(log_file.rows), q_data.topic,
                                q_data.difficulty, frame[s].answered_correct,
                                frame[s].selected, q_data.question_id)],
                  screen[s])
        ELSE Uncaught(s, session_state[s], "question_exception")
     /\ calls' = calls + 1
     /\ UNCHANGED <<log_file, appended, logged, resets, served>>

\* line 49: to_csv opens LOG_FILE for writing
LogOpen(s) ==
  /\ pc[s] = "log_open"
  /\ log_file' = TruncatedFile
  /\ Land(s, session_state[s], "log_flush", trigger[s], frame[s], screen[s])
  /\ UNCHANGED <<appended, logged, resets, calls, served>>

\* line 49: to_csv writes the frame and closes; log_result returns and
\* line 415 sets answered
LogFlush(s) ==
  LET df_log == frame[s].df_log
  IN /\ pc[s] = "log_flush"
     /\ log_file' = Flushed(log_file, to_csv(df_log))
     /\ appended' = Append(appended, df_log[Len(df_log)])
     /\ logged' = [logged EXCEPT ![s] = @ + 1]
     /\ Land(s, SetKey(session_state[s], "answered", TRUE), "performance",
             trigger[s], NoFrame, screen[s])
     /\ UNCHANGED <<resets, calls, served>>

\* lines 421-448: the run that logged reads LOG_FILE for the topic
\* performance, looks for a video and renders the Next Question button
PerformanceRead(s) ==
  /\ pc[s] = "performance"
  /\ IF log_file.kind = "csv"
     THEN NextHandler(s, session_state[s], trigger[s])
     ELSE Uncaught(s, session_state[s], "question_exception")
  /\ UNCHANGED <<log_file, appended, logged, resets, calls, served>>

\* ---------------------------------------------------------- specification
\* one step of the script run of session s, short of the completion page's
\* report
QuizStep(s, outcomes) ==
  \/ StartRerun(s)
  \/ CreateLogOpen(s)
  \/ CreateLogWrite(s)
  \/ TrainAndSelect(s)
  \/ GenerateQuestion(s, outcomes)
  \/ LogRead(s)
  \/ LogOpen(s)
  \/ LogFlush(s)
  \/ PerformanceRead(s)

\* a single session: the others never load the page
Next ==
  \E s \in {1} :
    \/ PageLoad(s)
    \/ \E c \in UserChoices : ClickSubmit(s, c, MaxLog)
    \/ ClickNext(s)
    \/ ClickReset(s)
    \/ ClickDownload(s)
    \/ DownloadRead(s)
    \/ QuizStep(s, ApiOutcomes)

Spec == Init /\ [][Next]_vars

\* the replies of the provider while sessions run side by side
MultiOutcomes == {ApiError, DictJson(TRUE, 2)}

\* every session takes the quiz; nobody uses the completion page's buttons
NextMulti ==
  \E s \in Sessions :
    \/ PageLoad(s)
    \/ \E c \in UserChoices : ClickSubmit(s, c, MaxMultiLog)
    \/ ClickNext(s)
    \/ QuizStep(s, MultiOutcomes)

SpecMulti == Init /\ [][NextMulti]_vars

\* ------------------------------------------------ writes that can fail
\* log_result is called at most MaxFaultLog times
MaxFaultLog == 3

\* the replies of the provider while writes fail
FaultOutcomes == {ApiError, DictJson(TRUE, 2)}

\* line 414 inside `try: ... except: pass`: the exception of log_result is
\* dropped and line 415 runs
WriteFailureIgnored(s, ss) ==
  Land(s, SetKey(ss, "answered", TRUE), "performance", trigger[s], NoFrame,
       screen[s])

\* lines 414-415: the exception to_csv raised leaves log_result and the
\* script; line 415 is not reached
WriteFailure(s, ss) == Uncaught(s, ss, "question_exception")

\* line 49: to_csv cannot open LOG_FILE for writing (permissions, a lock);
\* the file is as it was
LogOpenFails(s) ==
  /\ pc[s] = "log_open"
  /\ WriteFailure(s, session_state[s])
  /\ UNCHANGED <<log_file, appended, logged, resets, calls, served>>

\* line 49: to_csv opened LOG_FILE, which emptied it, and the write fails
\* (disk full, I/O error); the file stays without content
LogFlushFails(s) ==
  /\ pc[s] = "log_flush"
  /\ WriteFailure(s, session_state[s])
  /\ UNCHANGED <<log_file, appended, logged, resets, calls, served>>

\* line 35: the same failure while LOG_FILE is created
CreateLogWriteFails(s) ==
  /\ pc[s] = "create_write"
  /\ Uncaught(s, session_state[s], "exception")
  /\ UNCHANGED <<log_file, appended, logged, resets, calls, served>>

\* a single session whose writes of LOG_FILE may fail
NextFaults ==
  \E s \in {1} :
    \/ PageLoad(s)
    \/ \E c \in UserChoices : ClickSubmit(s, c, MaxFaultLog)
    \/ ClickNext(s)
    \/ QuizStep(s, FaultOutcomes)
    \/ LogOpenFails(s)
    \/ LogFlushFails(s)
    \/ CreateLogWriteFails(s)

SpecFaults == Init /\ [][NextFaults]_vars

\* ------------------------------------------------- the selector on its own
\* the longest log the selector is given
MaxSelectLog == 3

\* rows of two topics and two difficulties, answered right or wrong
SelectorRows ==
  {ResponseRecord(topic, difficulty, answered_correct, 1, <<topic, difficulty, 0>>) :
     topic \in {topics[1], topics[2]},
     difficulty \in {difficulties[1], difficulties[2]},
     answered_correct \in {0, 1}}

SelectorLogs == UNION {[1..n -> SelectorRows] : n \in 0..MaxSelectLog}

\* what the fit may give on such a log: a model, or an exception
SelectorFits(log_data) ==
  FittedModels(log_data, {0 - 1, 0}, {0 - 1, 0}, {0 - 1, 0, 1}) \cup {FitError}

\* a session about to request a question, LOG_FILE holding any of the logs
InitSelect ==
  /\ log_file \in {CsvFile(to_csv(log_data)) : log_data \in SelectorLogs}
  /\ session_state = [s \in Sessions |-> IF s = 1 THEN InitialState ELSE EmptyDict]
  /\ pc = [s \in Sessions |-> IF s = 1 THEN "train" ELSE "idle"]
  /\ trigger = [s \in Sessions |-> NoTrigger]
  /\ frame = [s \in Sessions |-> NoFrame]
  /\ screen = [s \in Sessions |-> "none"]
  /\ appended = <<>>
  /\ logged = [s \in Sessions |-> 0]
  /\ resets = 0
  /\ calls = 0
  /\ served = [s \in Sessions |-> FALSE]

\* line 343: train_adaptive_model returns, or the exception of the fit leaves
\* the script
TrainModel(s) ==
  /\ pc[s] = "train"
  /\ log_file.kind = "csv"
  /\ LET log_data == read_csv(log_file.rows)
     IN \E fit \in SelectorFits(log_data) :
          \E model \in {train_adaptive_model(log_data, fit)} :
            IF model = FitError
            THEN Uncaught(s, session_state[s], "exception")
            ELSE Land(s, session_state[s], "select", trigger[s],
                      [at |-> "select", model |-> model], screen[s])
  /\ UNCHANGED <<log_file, appended, logged, resets, calls, served>>

\* line 344: select_adaptive_difficulty returns
SelectNext(s) ==
  /\ pc[s] = "select"
  /\ \E sel \in {select_adaptive_difficulty(frame[s].model)} :
       Land(s, session_state[s], "generating", trigger[s],
            [at |-> "generate", topic |-> sel.topic,
             difficulty |-> sel.difficulty, model |-> frame[s].model],
            screen[s])
  /\ UNCHANGED <<log_file, appended, logged, resets, calls, served>>

NextSelect == \E s \in {1} : TrainModel(s) \/ SelectNext(s)

SpecSelect == InitSelect /\ [][NextSelect]_vars

\* ------------------------------------------- a learner who takes the quiz
\* a reply of the provider that is a question with its four options, its
\* explanation and a correct_answer among the options
ValidReply == DictJson(TRUE, 2)

\* a single session that is never reset
NextLive ==
  \E s \in {1} :
    \/ PageLoad(s)
    \/ \E c \in UserChoices : ClickSubmit(s, c, MaxLog)
    \/ ClickNext(s)
    \/ ClickDownload(s)
    \/ DownloadRead(s)
    \/ QuizStep(s, ApiOutcomes)

\* a script run that started goes on to its end; a provider that is asked
\* again and again gives a valid reply in the end; the learner submits and
\* advances whenever the page offers it again and again, and goes on
\* interacting with whatever page is shown
Fairness ==
  /\ WF_vars(QuizStep(1, ApiOutcomes) \/ DownloadRead(1))
  /\ SF_vars(GenerateQuestion(1, {ValidReply}))
  /\ SF_vars(\E c \in UserChoices : ClickSubmit(1, c, MaxLog))
  /\ SF_vars(ClickNext(1))
  /\ SF_vars(PageLoad(1))

SpecLive == Init /\ [][NextLive]_vars /\ Fairness

\* ------------------------------------------------------------- properties
\* the session has its five quiz keys
Ready(s) == StateKeys \subseteq DOMAIN session_state[s]

\* the session is between two script runs
Idle(s) == pc[s] = "idle"

\* the number of rows of the sequence rows that equal r
Occurrences(r, rows) == Cardinality({i \in 1..Len(rows) : rows[i] = r})

\* C1: at every moment 0 <= score <= answeredCount <= MAX_QUESTIONS, the time
\* between a correct submit and the advance included.  The code counts the
\* correct answer at line 404 and the question at line 445.
C1_ScoreWithinAnswered ==
  \A s \in Sessions :
    Ready(s) =>
      /\ 0 <= session_state[s].score
      /\ session_state[s].score <= session_state[s].num_questions
      /\ session_state[s].num_questions <= MAX_QUESTIONS

\* C2: a question that became current has at most one row appended to the
\* log, and exactly one once the session has advanced past it.
C2_OneRowPerQuestion ==
  \A s \in Sessions :
    /\ logged[s] <= 1
    /\ (Ready(s) /\ session_state[s].num_questions > 0
          /\ session_state[s].current_question = None) => logged[s] = 1

\* the session advanced past its second question, two rows in the log
C2_Witness ==
  /\ Ready(1)
  /\ session_state[1].num_questions = 2
  /\ session_state[1].current_question = None
  /\ logged[1] = 1
  /\ Len(appended) = 2

\* C3: a submit of choice c on a pending question that is not answered grades
\* it (score + 1 exactly when c is the correct option), and its run sets
\* answered and appends the row {topic, difficulty, questionId, verdict, c}.
C3_SubmitGradesAndLogs ==
  [][\A s \in Sessions :
       /\ \A c \in UserChoices :
            ( /\ Ready(s)
              /\ ShowsQuestion(session_state[s])
              /\ ~session_state[s].answered
              /\ ClickSubmit(s, c, MaxLog) )
            => /\ pc'[s] = "log_read"
               /\ session_state'[s].score = session_state[s].score
                    + Grade(c, session_state[s].current_question.correct_answer)
               /\ frame'[s].selected = c
               /\ frame'[s].answered_correct
                    = Grade(c, session_state[s].current_question.correct_answer)
       /\ pc[s] = "log_read" => pc'[s] = "log_open"
       /\ pc[s] = "log_open" => pc'[s] = "log_flush"
       /\ pc[s] = "log_flush" =>
            /\ session_state'[s].answered
            /\ log_file'.kind = "csv"
            /\ Len(log_file'.rows) = Len(log_file.rows) + 1
     ]_vars

\* C4: a submit on a question that is already answered changes neither the
\* session nor the log, and no row is appended.
C4_SubmitOnceAnswered ==
  [][\A s \in Sessions : \A c \in UserChoices :
       ( /\ Ready(s)
         /\ session_state[s].answered
         /\ ClickSubmit(s, c, MaxLog) )
       => /\ session_state'[s] = session_state[s]
          /\ log_file' = log_file
          /\ appended' = appended
          /\ logged' = logged
          /\ Idle(s)'
     ]_vars

\* an answered question on the page, its Submit Answer button still there
C4_Witness ==
  /\ Idle(1)
  /\ screen[1] = "question"
  /\ Ready(1)
  /\ session_state[1].answered
  /\ session_state[1].current_question # None
  /\ logged[1] = 1
  /\ calls < MaxLog

\* C5: num_questions grows only in the run of a Next Question click on an
\* answered question, by one, and that run leaves no current question and
\* answered false; a Next Question click on a question that is not answered
\* changes nothing.
C5_AdvanceOnlyOnceAnswered ==
  [][\A s \in Sessions :
       /\ ( /\ Ready(s)
            /\ ~session_state[s].answered
            /\ ClickNext(s) )
          => /\ session_state'[s] = session_state[s]
             /\ Idle(s)'
       /\ ( /\ Ready(s)
            /\ Ready(s)'
            /\ session_state'[s].num_questions # session_state[s].num_questions )
          => /\ ClickNext(s)
             /\ session_state[s].answered
             /\ session_state[s].current_question # None
             /\ session_state'[s].num_questions
                  = session_state[s].num_questions + 1
             /\ session_state'[s].current_question = None
             /\ ~session_state'[s].answered
             /\ session_state'[s].score = session_state[s].score
     ]_vars

\* the run of a Next Question click has advanced and asked for a rerun
C5_Witness ==
  /\ pc[1] = "startup"
  /\ trigger[1].kind = "rerun_next"
  /\ Ready(1)
  /\ session_state[1].num_questions = 1
  /\ session_state[1].current_question = None
  /\ ~session_state[1].answered

\* C6: the completion page (final score and report) is produced only when
\* num_questions = MAX_QUESTIONS; below that, a failed question request
\* included, the session shows no completion page.
C6_CompleteOnlyAtMax ==
  \A s \in Sessions :
    (Idle(s) /\ Ready(s) /\ screen[s] = "complete")
      => session_state[s].num_questions = MAX_QUESTIONS

\* C7: while every provider call of the session has raised, the session has
\* no current question, answered is false, score and num_questions are what
\* they were at the start, no row is appended and no run ended in an
\* uncaught exception.
C7_ProviderAlwaysFails ==
  /\ \A s \in Sessions :
       ~served[s] =>
         /\ Ready(s) => /\ session_state[s].current_question = None
                        /\ ~session_state[s].answered
                        /\ session_state[s].score = 0
                        /\ session_state[s].num_questions = 0
         /\ logged[s] = 0
         /\ screen[s] \notin {"exception", "question_exception"}
         /\ pc[s] \notin {"log_read", "log_open", "log_flush", "performance"}
  /\ (\A s \in Sessions : ~served[s]) => appended = <<>>

\* the provider has raised on the first request, on the request of the run
\* that Take Quiz Again started and on the request of the rerun after it
C7_Witness ==
  /\ ~served[1]
  /\ resets = 1
  /\ Idle(1)
  /\ Ready(1)
  /\ screen[1] = "complete"

\* C8: from num_questions = MAX_QUESTIONS on, and short of Take Quiz Again,
\* no run requests a question, grades a submit or appends a row, and the
\* session keeps its score and num_questions.
C8_NothingAfterMax ==
  [][\A s \in Sessions :
       ( /\ Ready(s)
         /\ session_state[s].num_questions = MAX_QUESTIONS
         /\ ~ClickReset(s) )
       => /\ session_state'[s] = session_state[s]
          /\ log_file' = log_file
          /\ appended' = appended
          /\ calls' = calls
          /\ pc'[s] \in {"idle", "download_read"}
     ]_vars

\* the completion page of a finished quiz with a correct answer in it
C8_Witness ==
  /\ Idle(1)
  /\ Ready(1)
  /\ screen[1] = "complete"
  /\ session_state[1].num_questions = MAX_QUESTIONS
  /\ session_state[1].score > 0
  /\ Len(appended) = MAX_QUESTIONS

\* C9: the run that handles Take Quiz Again deletes the five quiz keys and
\* leaves the log as it was, and the rerun it asks for starts from the
\* initial session state (score 0, num_questions 0, no current question,
\* answered false), the log still as it was.
C9_ResetGivesInitialState ==
  [][\A s \in Sessions :
       /\ (trigger'[s].kind = "rerun_reset" /\ trigger[s].kind # "rerun_reset")
          => /\ DOMAIN session_state'[s] \cap StateKeys = {}
             /\ log_file' = log_file
             /\ appended' = appended
       /\ (trigger[s].kind = "rerun_reset" /\ pc[s] = "startup")
          => /\ session_state'[s] = InitialState
             /\ log_file' = log_file
             /\ appended' = appended
     ]_vars

\* the rerun after Take Quiz Again has initialised the session; the rows of
\* the quiz before are in the log
C9_Witness ==
  /\ trigger[1].kind = "rerun_reset"
  /\ pc[1] = "train"
  /\ session_state[1] = InitialState
  /\ log_file = CsvFile(to_csv(appended))
  /\ Len(appended) = MAX_QUESTIONS

\* C10: once no session is inside log_result or the creation of LOG_FILE,
\* the log holds every appended row as many times as it was appended.
C10_NoRowLost ==
  (\A s \in Sessions : Idle(s)) =>
    \A i \in 1..Len(appended) :
      /\ log_file.kind = "csv"
      /\ Occurrences(appended[i], read_csv(log_file.rows))
           = Occurrences(appended[i], appended)

\* C11: with one session the log is append-only and reads back what was
\* appended: whenever LOG_FILE can be read, read_csv gives every row appended
\* so far, in the order of the appends, the newest last; the file is empty
\* only inside the to_csv that creates it or rewrites it with those rows and
\* the new one.
C11_AppendOnlyRoundTrip ==
  /\ log_file.kind = "absent" => appended = <<>>
  /\ log_file.kind = "csv" => read_csv(log_file.rows) = appended
  /\ log_file.kind = "truncated" =>
       \E s \in Sessions :
         \/ pc[s] = "create_write" /\ appended = <<>>
         \/ /\ pc[s] = "log_flush"
            /\ Len(frame[s].df_log) = Len(appended) + 1
            /\ SubSeq(frame[s].df_log, 1, Len(appended)) = appended

\* a second quiz after Take Quiz Again has appended to the rows of the first
C11_Witness ==
  /\ Idle(1)
  /\ resets = 1
  /\ log_file.kind = "csv"
  /\ Len(appended) = MaxLog
  /\ read_csv(log_file.rows) = appended
  /\ session_state[1].num_questions < Len(appended)

\* the combination i has no row in the log
Unseen(i, log_data) ==
  \A k \in 1..Len(log_data) :
    log_data[k].topic # ComboTopic(i) \/ log_data[k].difficulty # ComboDifficulty(i)

\* the session has trained and selected; the model is in the frame
Selected(s) == pc[s] = "generating" /\ frame[s].at = "generate" /\ log_file.kind = "csv"

\* C12: on a log of fewer than 3 rows, or whose answered_correct values are
\* all 1 or all 0, training gives no model and the selection is
\* (World War I, Easy).
C12_NullModelAndDefault ==
  \A s \in Sessions :
    LET log_data == read_csv(log_file.rows)
        few == Len(log_data) < 3
        all_right == \A k \in 1..Len(log_data) : log_data[k].answered_correct = 1
        all_wrong == \A k \in 1..Len(log_data) : log_data[k].answered_correct = 0
    IN /\ (pc[s] = "select" /\ (few \/ all_right \/ all_wrong))
          => frame[s].model = NoModel
       /\ (Selected(s) /\ (few \/ all_right \/ all_wrong))
          => /\ frame[s].model = NoModel
             /\ frame[s].topic = "World War I"
             /\ frame[s].difficulty = "Easy"

\* three rows, all answered right, about another combination: no model, and
\* the default is selected
C12_Witness ==
  /\ Selected(1)
  /\ Len(log_file.rows) = 3
  /\ \A k \in 1..3 :
       /\ read_csv(log_file.rows)[k].answered_correct = 1
       /\ read_csv(log_file.rows)[k].topic = "World War II"
  /\ frame[1].model = NoModel
  /\ frame[1].topic = "World War I"
  /\ frame[1].difficulty = "Easy"

\* C13: with a model, the selection is a combination whose prediction is at
\* most that of each other combination, and strictly below that of every
\* combination the loops visit before it.
C13_FirstWeakestCombination ==
  \A s \in Sessions :
    (Selected(s) /\ frame[s].model # NoModel) =>
      \E i \in 1..NumCombos :
        /\ frame[s].topic = ComboTopic(i)
        /\ frame[s].difficulty = ComboDifficulty(i)
        /\ \A j \in 1..NumCombos :
             Prediction(frame[s].model, ComboTopic(i), ComboDifficulty(i))
               <= Prediction(frame[s].model, ComboTopic(j), ComboDifficulty(j))
        /\ \A j \in 1..(i - 1) :
             Prediction(frame[s].model, ComboTopic(j), ComboDifficulty(j))
               > Prediction(frame[s].model, ComboTopic(i), ComboDifficulty(i))

\* with a model, (World War II, Medium) was selected and the combination
\* after it has the same prediction
C13_Witness ==
  /\ Selected(1)
  /\ frame[1].model # NoModel
  /\ frame[1].topic = "World War II"
  /\ frame[1].difficulty = "Medium"
  /\ Prediction(frame[1].model, "World War II", "Medium")
       = Prediction(frame[1].model, "World War II", "Hard")

\* C14: with a model, the scan gives the neutral 0.5 to every combination
\* that has no row in the training log.
C14_UnseenCombinationIsNeutral ==
  \A s \in Sessions :
    (Selected(s) /\ frame[s].model # NoModel) =>
      \A i \in 1..NumCombos :
        Unseen(i, read_csv(log_file.rows)) =>
          Prediction(frame[s].model, ComboTopic(i), ComboDifficulty(i)) = Neutral

\* C15: a reply of the provider that lacks a field or whose correct_answer is
\* outside 1..4 never becomes the current question: every current question
\* has its fields and a correct_answer in 1..4.
C15_CurrentQuestionIsValid ==
  \A s \in Sessions :
    (Ready(s) /\ session_state[s].current_question # None) =>
      /\ session_state[s].current_question.complete
      /\ session_state[s].current_question.correct_answer \in 1..NumOptions

\* C16: training on a log of at least 3 rows with both outcomes never ends
\* the script run with an exception: a fit that fails gives no model and the
\* default selection.
C16_FitFailureGivesNoModel ==
  [][\A s \in Sessions :
       (pc[s] = "train" /\ pc'[s] # "train") =>
         /\ pc'[s] = "select"
         /\ screen'[s] # "exception"
         /\ frame'[s].model # FitError
     ]_vars

\* the rows of answered_correct = 1 among rows
CorrectRows(rows) == Cardinality({i \in 1..Len(rows) : rows[i].answered_correct = 1})

\* C17: a training that cannot read LOG_FILE goes on as with an empty log:
\* no model, the default selection, and the provider is asked.
C17_UnreadableLogIsEmptyLog ==
  [][\A s \in Sessions :
       (pc[s] = "train" /\ pc'[s] # "train" /\ log_file.kind # "csv") =>
         /\ pc'[s] = "generating"
         /\ frame'[s].topic = DefaultSelection.topic
         /\ frame'[s].difficulty = DefaultSelection.difficulty
     ]_vars

\* C18: a training read of one session while the log_result of another is
\* between its read and the end of its write does not fail.
C18_TrainingDuringAppend ==
  [][\A s \in Sessions :
       ( /\ pc[s] = "train"
         /\ pc'[s] # "train"
         /\ \E o \in Sessions \ {s} : pc[o] \in {"log_open", "log_flush"} )
       => /\ pc'[s] = "generating"
          /\ screen'[s] # "exception"
     ]_vars

\* C19: a write of log_result that fails ends the run with the exception and
\* leaves answered false; answered is true only with the row of the current
\* question as the last row of LOG_FILE.
C19_AnsweredMeansPersisted ==
  \A s \in Sessions :
    (Ready(s) /\ session_state[s].answered) =>
      /\ session_state[s].current_question # None
      /\ logged[s] = 1
      /\ log_file.kind = "csv"
      /\ Len(log_file.rows) > 0
      /\ LET row == read_csv(log_file.rows)[Len(log_file.rows)]
             q_data == session_state[s].current_question
         IN /\ row.question_id = q_data.question_id
            /\ row.topic = q_data.topic
            /\ row.difficulty = q_data.difficulty

\* the second question was answered after the write of a submit had failed
C19_Witness ==
  /\ Idle(1)
  /\ Ready(1)
  /\ session_state[1].answered
  /\ session_state[1].num_questions = 1
  /\ calls = 3
  /\ Len(appended) = 2
  /\ log_file = CsvFile(to_csv(appended))

\* C20: between runs, score is the number of rows with answered_correct = 1
\* the session has appended (no reset, no other writer).
C20_ScoreCountsLoggedCorrect ==
  \A s \in {1} :
    (Idle(s) /\ Ready(s)) =>
      session_state[s].score = CorrectRows(appended)

\* C21: in every session state, answered true implies that a current
\* question is present and num_questions < MAX_QUESTIONS: answered is set only
\* on the question page (lines 356, 415), and the advance of lines 445-447 and
\* the reset of lines 518-522 clear it.
C21_AnsweredHasPendingQuestion ==
  \A s \in Sessions :
    (Ready(s) /\ session_state[s].answered) =>
      /\ session_state[s].current_question # None
      /\ session_state[s].num_questions < MAX_QUESTIONS

\* the last question of a quiz is answered and not yet advanced
C21_Witness ==
  /\ Idle(1)
  /\ Ready(1)
  /\ session_state[1].answered
  /\ session_state[1].current_question # None
  /\ session_state[1].num_questions = MAX_QUESTIONS - 1
  /\ screen[1] = "question"

\* C22: under fairness (the provider succeeds in the end when asked again
\* and again, appends succeed, the learner keeps submitting and advancing) a
\* session that is not reset reaches num_questions = MAX_QUESTIONS, and has
\* then appended exactly MAX_QUESTIONS rows.
C22_EventuallyComplete ==
  /\ <>(Ready(1) /\ session_state[1].num_questions = MAX_QUESTIONS)
  /\ [](Ready(1) /\ session_state[1].num_questions = MAX_QUESTIONS
          => Len(appended) = MAX_QUESTIONS)
====
